---- MODULE Spec2Model ----
(***************************************************************************)
(* Retrieval pipeline of the document-processing agent: RAGSystem          *)
(* (src/agents/rag_system.py) on top of PineconeService                    *)
(* (src/services/pinecone_service.py) and BedrockService                   *)
(* (src/services/aws_bedrock.py).                                          *)
(*                                                                         *)
(* Python strings that the code slices, joins or formats (document ids,    *)
(* texts, chunk ids) are sequences of one-character strings; dict keys and *)
(* operation names are TLA+ strings.  A dict is a function from its keys.  *)
(***************************************************************************)
EXTENDS Integers, Sequences, FiniteSets, TLC

VARIABLES index, index_dim, upd, call, ret, issued, seen

vars == <<index, index_dim, upd, call, ret, issued, seen>>

----------------------------------------------------------------------------
(* Bounds of the model *)

\* longest document text the callers pass
MaxTextLen == 4
\* largest top_k a caller passes to get_document_context
MaxTopK == 3
\* DocumentConfig.chunk_size / chunk_overlap as set through CHUNK_SIZE and
\* CHUNK_OVERLAP (defaults 1000 and 200), scaled to the text lengths above
chunk_size == 3
chunk_overlap == 1
\* RAGConfig.max_context_length as set through MAX_CONTEXT_LENGTH (default
\* 4000), scaled the same way
max_context_length == 5

(* Program constants *)

top_k_results == 5
\* RAGConfig.similarity_threshold 0.25, scores in hundredths
similarity_threshold == 25
\* a fallback that keeps as many candidates as a default search asks for
FallbackCountOfDefaultSearch == top_k_results
FallbackCount == 3
DeleteFetchCeiling == 1000
DefaultIndexDimension == 1536

----------------------------------------------------------------------------
(* Inputs *)

Rep(c, n) == [i \in 1..n |-> c]
\* document texts: the empty text, a text of one chunk and a text of
\* several chunks that shares no character with it
Texts == {Rep("q", n) : n \in 0..1} \cup {Rep("p", MaxTextLen)}

\* document ids; the second contains the first as a substring
DocSeq == << <<"a">>, <<"a", "b">> >>
DocIds == {DocSeq[n] : n \in DOMAIN DocSeq}

NoMeta == [k \in {} |-> 0]
\* caller-supplied metadata maps: None / {}, and a map with an ordinary key
\* and the keys index_document itself writes
Metas == { NoMeta,
           [source |-> <<"s">>, document_id |-> <<"a", "b">>,
            chunk_index |-> 7, chunk_count |-> 9, text |-> <<"z">>] }

\* dimensions of the vectors the embedding model returns
EmbeddingDims == {1536, 1024}
\* similarity scores in hundredths, one below and one above the threshold
Scores == {10, 60}
\* the score of every entry against the all-zero dummy vector
ZeroScores == {0}
\* scores of a retrieval call: two below the threshold, the threshold itself
\* and one above it
SearchScores == {10, 20, similarity_threshold, 60}
\* queries of a retrieval call: the empty query and a query with text
Queries == {<<>>, <<"w">>}
\* top_k of a retrieval call: a negative value, 0 (which the code treats as
\* it treats None) and the positive values
TopKs == -1..MaxTopK
\* filters of a retrieval call: None, or one document
SearchFilters == {NoMeta} \cup {[document_id |-> d] : d \in DocIds}
\* vector weights of hybrid_search, in hundredths: the default and 1.0
Weights == {70, 100}

----------------------------------------------------------------------------
(* Python helpers *)

\* {**a, **b}
DictMerge(a, b) ==
    [k \in DOMAIN a \cup DOMAIN b |-> IF k \in DOMAIN b THEN b[k] ELSE a[k]]

\* str(i) for i >= 0
Digit(n) == CASE n = 0 -> "0" [] n = 1 -> "1" [] n = 2 -> "2" [] n = 3 -> "3"
              [] n = 4 -> "4" [] n = 5 -> "5" [] n = 6 -> "6" [] n = 7 -> "7"
              [] n = 8 -> "8" [] n = 9 -> "9"
RECURSIVE Str(_)
Str(i) == IF i < 10 THEN <<Digit(i)>> ELSE Str(i \div 10) \o <<Digit(i % 10)>>

Whitespace == {" ", "\n", "\t"}

\* str.strip()
RECURSIVE LStrip(_)
LStrip(s) == IF s # <<>> /\ Head(s) \in Whitespace THEN LStrip(Tail(s)) ELSE s
RECURSIVE RStrip(_)
RStrip(s) == IF s # <<>> /\ s[Len(s)] \in Whitespace
             THEN RStrip(SubSeq(s, 1, Len(s) - 1)) ELSE s
Strip(s) == RStrip(LStrip(s))

\* f"{document_id}_chunk_{i}"
ChunkId(document_id, i) ==
    document_id \o <<"_", "c", "h", "u", "n", "k", "_">> \o Str(i)

----------------------------------------------------------------------------
(* Chunker: RecursiveCharacterTextSplitter(chunk_size, chunk_overlap,      *)
(* length_function=len, separators ["\n\n", "\n", " ", ""]), with the       *)
(* library's defaults keep_separator=True and strip_whitespace=True.  The  *)
(* texts of the model hold no newline, so of the separators only " " and   *)
(* "" can apply.                                                           *)

Separators == <<" ", "">>

\* sum of the lengths of the splits in current_doc (separator "" adds 0)
RECURSIVE TotalLen(_)
TotalLen(docs) ==
    IF docs = <<>> THEN 0 ELSE Len(Head(docs)) + TotalLen(Tail(docs))

\* "".join(docs)
RECURSIVE Concat(_)
Concat(docs) == IF docs = <<>> THEN <<>> ELSE Head(docs) \o Concat(Tail(docs))

\* _join_docs(docs, ""): the joined text, stripped; <<>> stands for None
join_docs(docs) == Strip(Concat(docs))

\* docs.append(doc) if doc is not None
AppendDoc(docs, current_doc) ==
    IF join_docs(current_doc) = <<>> THEN docs
    ELSE Append(docs, join_docs(current_doc))

\* _split_text_with_regex(text, separator, keep_separator=True): the text
\* before the first separator, then every separator with the text that
\* follows it; empty pieces are dropped
RECURSIVE Pieces(_, _, _, _)
Pieces(text, separator, current, out) ==
    IF text = <<>>
    THEN IF current = <<>> THEN out ELSE Append(out, current)
    ELSE IF Head(text) = separator
         THEN Pieces(Tail(text), separator, <<separator>>,
                     IF current = <<>> THEN out ELSE Append(out, current))
         ELSE Pieces(Tail(text), separator, Append(current, Head(text)), out)

\* _merge_splits whose while loop drops nothing from current_doc
PopOverlapKeepsAll(current_doc, len, size, overlap) == current_doc

\* the while loop of _merge_splits: drop splits from the front of
\* current_doc until the overlap bound holds and the next split fits
RECURSIVE PopOverlap(_, _, _, _)
PopOverlap(current_doc, len, size, overlap) ==
    LET total == TotalLen(current_doc)
    IN IF total > overlap \/ (total + len > size /\ total > 0)
       THEN PopOverlap(Tail(current_doc), len, size, overlap)
       ELSE current_doc

\* _merge_splits(splits, ""), from the for loop on
RECURSIVE merge_splits(_, _, _, _, _)
merge_splits(splits, current_doc, docs, size, overlap) ==
    IF splits = <<>>
    THEN AppendDoc(docs, current_doc)
    ELSE LET d == Head(splits)
         IN IF TotalLen(current_doc) + Len(d) > size /\ current_doc # <<>>
            THEN merge_splits(Tail(splits),
                              Append(PopOverlap(current_doc, Len(d), size, overlap), d),
                              AppendDoc(docs, current_doc), size, overlap)
            ELSE merge_splits(Tail(splits), Append(current_doc, d), docs,
                              size, overlap)

\* RecursiveCharacterTextSplitter._split_text(text, separators) and its
\* loop over the splits: splits shorter than chunk_size are collected and
\* merged, a longer one is split again with the separators that remain
RECURSIVE recursive_split(_, _, _, _)
RECURSIVE split_loop(_, _, _, _, _, _)
recursive_split(text, separators, size, overlap) ==
    LET applies == {i \in 1..Len(separators) :
                       \/ separators[i] = ""
                       \/ \E k \in 1..Len(text) : text[k] = separators[i]}
        first == CHOOSE i \in applies : \A j \in applies : i <= j
        separator == separators[first]
        new_separators == IF separator = "" THEN <<>>
                          ELSE SubSeq(separators, first + 1, Len(separators))
        splits == IF separator = "" THEN [k \in 1..Len(text) |-> <<text[k]>>]
                  ELSE Pieces(text, separator, <<>>, <<>>)
    IN split_loop(splits, <<>>, <<>>, new_separators, size, overlap)

split_loop(splits, good_splits, final_chunks, new_separators, size, overlap) ==
    IF splits = <<>>
    THEN final_chunks \o merge_splits(good_splits, <<>>, <<>>, size, overlap)
    ELSE LET s == Head(splits)
         IN IF Len(s) < size
            THEN split_loop(Tail(splits), Append(good_splits, s), final_chunks,
                            new_separators, size, overlap)
            ELSE split_loop(Tail(splits), <<>>,
                            final_chunks
                              \o merge_splits(good_splits, <<>>, <<>>, size, overlap)
                              \o (IF new_separators = <<>> THEN <<s>>
                                  ELSE recursive_split(s, new_separators, size, overlap)),
                            new_separators, size, overlap)

\* text_splitter.split_text(text) of a splitter constructed with
\* (chunk_size, chunk_overlap) = (size, overlap): the chunk texts, in text
\* order
split_text_with(text, size, overlap) ==
    recursive_split(text, Separators, size, overlap)

\* text_splitter.split_text(text) under the configuration of the model
split_text(text) == split_text_with(text, chunk_size, chunk_overlap)

\* RAGSystem._split_text: Document(page_content=chunk,
\* metadata={'chunk_index': i}) for i, chunk in enumerate(chunks)
_split_text_with(text, size, overlap) ==
    LET chunks == split_text_with(text, size, overlap)
    IN [i \in 1..Len(chunks) |-> [page_content |-> chunks[i],
                                  chunk_index |-> i - 1]]

\* RAGSystem._split_text under the configuration of the model
_split_text(text) ==
    LET chunks == split_text(text)
    IN [i \in 1..Len(chunks) |-> [page_content |-> chunks[i],
                                  chunk_index |-> i - 1]]

----------------------------------------------------------------------------
(* Embedding service *)

\* BedrockService.generate_embeddings: one vector per text, in order; the
\* vector of a text is determined by the text and the model's dimension
generate_embeddings(texts, dim) ==
    [i \in 1..Len(texts) |-> [dim |-> dim, of |-> texts[i]]]

----------------------------------------------------------------------------
(* PineconeService *)

\* validate_index_dimension: an index whose dimension differs from the
\* embedding's is deleted and created again, empty, with the new dimension
validate_index_dimension(idx, idim, embedding_dim) ==
    IF idim # embedding_dim
    THEN [index |-> [id \in {} |-> 0], index_dim |-> embedding_dim]
    ELSE [index |-> idx, index_dim |-> idim]

\* upsert_vectors(vectors); upsert_ok is whether self.index.upsert returns
\* rather than raises.  The batch is one request: written whole or not at all.
upsert_vectors(idx, idim, vectors, upsert_ok) ==
    IF vectors = <<>>
    THEN [index |-> idx, index_dim |-> idim, ok |-> FALSE]
    ELSE LET v == validate_index_dimension(idx, idim, vectors[1].values.dim)
             ids == {vectors[i].id : i \in 1..Len(vectors)}
             \* a later vector with the same id overwrites an earlier one
             last(id) == CHOOSE i \in 1..Len(vectors) :
                            /\ vectors[i].id = id
                            /\ \A j \in (i + 1)..Len(vectors) : vectors[j].id # id
         IN IF upsert_ok
            THEN [index |-> [id \in DOMAIN v.index \cup ids |->
                               IF id \in ids
                               THEN [values |-> vectors[last(id)].values,
                                     metadata |-> vectors[last(id)].metadata]
                               ELSE v.index[id]],
                  index_dim |-> v.index_dim, ok |-> TRUE]
            ELSE [index |-> v.index, index_dim |-> v.index_dim, ok |-> FALSE]

\* a query that drops its filter
MatchingWithoutFilter(idx, filters) == DOMAIN idx

\* the entries a metadata equality filter selects (no filter: all entries)
Matching(idx, filters) ==
    {id \in DOMAIN idx :
        \A k \in DOMAIN filters :
            k \in DOMAIN idx[id].metadata /\ idx[id].metadata[k] = filters[k]}

Min(a, b) == IF a < b THEN a ELSE b

\* most chunks a text of the model has
MaxChunks == Len(split_text(Rep("p", MaxTextLen)))
\* the order in which the index lists entries of equal score
IdOrder ==
    [n \in 1..(Len(DocSeq) * MaxChunks) |->
        ChunkId(DocSeq[((n - 1) \div MaxChunks) + 1], (n - 1) % MaxChunks)]

\* the top_k best of the scored matches, best first; equal scores keep the
\* order of the list
RECURSIVE InsertByScore(_, _)
InsertByScore(sorted, x) ==
    IF sorted = <<>> THEN <<x>>
    ELSE IF Head(sorted).score >= x.score
         THEN <<Head(sorted)>> \o InsertByScore(Tail(sorted), x)
         ELSE <<x>> \o sorted
RECURSIVE SortByScoreDesc(_)
SortByScoreDesc(s) ==
    IF s = <<>> THEN <<>>
    ELSE InsertByScore(SortByScoreDesc(SubSeq(s, 1, Len(s) - 1)), s[Len(s)])

\* self.index.query(vector, top_k, filter, include_metadata=True)["matches"]:
\* the score of an entry is the similarity of its vector to the query's, so
\* entries holding the same vector score the same; the top_k best matching
\* entries come back best first
QueryResults(idx, top_k, filters, scores) ==
    LET M == Matching(idx, filters)
        stored == SelectSeq(IdOrder, LAMBDA id : id \in M)
    IN {LET scored == [i \in 1..Len(stored) |->
                         [id |-> stored[i],
                          score |-> sc[idx[stored[i]].values.of],
                          metadata |-> idx[stored[i]].metadata]]
            ranked == SortByScoreDesc(scored)
        IN SubSeq(ranked, 1, Min(top_k, Len(ranked))) :
          sc \in [{idx[id].values.of : id \in M} -> scores]}

\* what self.index.query can do for a query: raise, or return matches
QueryOutcomes(idx, top_k, filters, scores) ==
    {[raised |-> TRUE]} \cup
    {[raised |-> FALSE, matches |-> m] :
        m \in QueryResults(idx, top_k, filters, scores)}

\* self.index.query when nothing is assumed about the similarity function
\* or about the order of the matches: any min(top_k, matching) distinct
\* matching entries, in any order, with any scores
AnyQueryResults(idx, top_k, filters, scores) ==
    LET M == Matching(idx, filters)
        n == Min(top_k, Cardinality(M))
    IN {[i \in 1..n |-> [id |-> ids[i], score |-> sc[i],
                         metadata |-> idx[ids[i]].metadata]] :
          ids \in {f \in [1..n -> M] : \A i, j \in 1..n : f[i] = f[j] => i = j},
          sc \in [1..n -> scores]}

\* what self.index.query can do in a retrieval call: the service rejects a
\* top_k below 1; otherwise the query raises or returns matches
AnyQueryOutcomes(idx, top_k, filters, scores) ==
    {[raised |-> TRUE]} \cup
    (IF top_k < 1 THEN {}
     ELSE {[raised |-> FALSE, matches |-> m] :
              m \in AnyQueryResults(idx, top_k, filters, scores)})

\* search_similar: the dict it returns for an outcome of self.index.query
search_similar(outcome) ==
    IF outcome.raised
    THEN [error |-> "query failed"]
    ELSE [success |-> TRUE, results |-> outcome.matches]

\* delete_document(id): self.index.delete(ids=[id]); deleting an id that is
\* not in the index succeeds and changes nothing
delete_document(idx, id) ==
    [index |-> [i \in DOMAIN idx \ {id} |-> idx[i]], ok |-> TRUE]

----------------------------------------------------------------------------
(* RAGSystem: index lifecycle *)

\* index_document whose except clause is skipped when the embedding step
\* fails: the call answers success for the chunks it made
index_chunks_embedding_failure_unreported(idx, idim, document_id, chunks, metadata, emb_ok, dim, upsert_ok) ==
    [index |-> idx, index_dim |-> idim,
     ret |-> [success |-> TRUE, document_id |-> document_id,
              chunk_count |-> Len(chunks)]]

\* index_document from line 51 on, chunks being what _split_text returned.
\* emb_ok is whether generate_embeddings returns rather than raises, dim
\* the dimension of the vectors it returns; with no chunk the embedding
\* loop issues no request and cannot raise.
index_chunks(idx, idim, document_id, chunks, metadata, emb_ok, dim, upsert_ok) ==
    LET texts == [i \in 1..Len(chunks) |-> chunks[i].page_content]
    IN IF ~emb_ok /\ texts # <<>>
       THEN [index |-> idx, index_dim |-> idim,
             ret |-> [error |-> "embedding failed"]]
       ELSE LET embeddings == generate_embeddings(texts, dim)
                vectors == [i \in 1..Len(chunks) |->
                              [id |-> ChunkId(document_id, i - 1),
                               values |-> embeddings[i],
                               metadata |->
                                  DictMerge([document_id |-> document_id,
                                             chunk_index |-> i - 1,
                                             chunk_count |-> Len(chunks),
                                             text |-> chunks[i].page_content],
                                            metadata)]]
                \* the value upsert_vectors returns is not looked at
                u == upsert_vectors(idx, idim, vectors, upsert_ok)
            IN [index |-> u.index, index_dim |-> u.index_dim,
                ret |-> [success |-> TRUE,
                         document_id |-> document_id,
                         chunk_count |-> Len(chunks)]]

\* index_document(document_id, text_content, metadata)
index_document(idx, idim, document_id, text_content, metadata, emb_ok, dim, upsert_ok) ==
    index_chunks(idx, idim, document_id, _split_text(text_content), metadata,
                 emb_ok, dim, upsert_ok)

\* _delete_document_chunks with an except clause that reports the chunks the
\* query located instead of 0
delete_document_chunks_reports_located(idx, document_id, search_results) ==
    [index |-> idx,
     deleted_count |-> IF "results" \in DOMAIN search_results
                       THEN Len(search_results.results) ELSE 0]

\* _delete_document_chunks(document_id).  search_results is the dict that
\* search_similar returns, so the loop "for chunk in search_results" visits
\* its keys, which are strs.
_delete_document_chunks(idx, document_id, search_results) ==
    LET visited == DOMAIN search_results
    IN IF visited # {}
       THEN \* first pass of the loop: chunk['document_id'] on a str raises
            \* TypeError before any delete_document call; except: return 0
            [index |-> idx, deleted_count |-> 0]
       ELSE \* no pass of the loop: return deleted_count, still 0
            [index |-> idx, deleted_count |-> 0]

\* delete_document_index that answers an error when no chunk was deleted
delete_document_index_not_found(idx, document_id, search_results) ==
    LET r == _delete_document_chunks(idx, document_id, search_results)
    IN [index |-> r.index,
        ret |-> IF r.deleted_count = 0
                THEN [error |-> "document not found"]
                ELSE [success |-> TRUE,
                      document_id |-> document_id,
                      deleted_chunks |-> r.deleted_count]]

\* delete_document_index(document_id)
delete_document_index(idx, document_id, search_results) ==
    LET r == _delete_document_chunks(idx, document_id, search_results)
    IN [index |-> r.index,
        ret |-> [success |-> TRUE,
                 document_id |-> document_id,
                 deleted_chunks |-> r.deleted_count]]

----------------------------------------------------------------------------
(* RAGSystem: retrieval *)

\* sep.join(parts)
RECURSIVE Join(_, _)
Join(sep, parts) ==
    IF parts = <<>> THEN <<>>
    ELSE IF Len(parts) = 1 THEN parts[1]
    ELSE parts[1] \o sep \o Join(sep, Tail(parts))

\* a in b, for strs
IsSubstring(a, b) ==
    \E i \in 0..(Len(b) - Len(a)) : SubSeq(b, i + 1, i + Len(a)) = a

\* d.get(key, default)
Get(d, key, default) == IF key \in DOMAIN d THEN d[key] ELSE default

\* the dict a chunk is appended as to its group
GroupedChunk(chunk) ==
    [chunk_id |-> chunk.id,
     content |-> Strip(IF Get(chunk, "content", <<>>) # <<>> THEN chunk.content
                       ELSE Get(chunk.metadata, "text", <<>>)),
     score |-> chunk.score,
     metadata |-> chunk.metadata]

\* a grouping that takes every chunk's own id as its document id
GroupKeyIsChunkId(chunk) == chunk.id

\* doc_id = metadata.get('document_id') or chunk.get('id', 'unknown')
GroupKey(chunk) ==
    IF Get(chunk.metadata, "document_id", <<>>) # <<>>
    THEN chunk.metadata.document_id ELSE chunk.id

\* the for loop of _group_chunks_by_document: groups in order of first hit
RECURSIVE AddToGroups(_, _)
AddToGroups(groups, chunks) ==
    IF chunks = <<>> THEN groups
    ELSE LET chunk == Head(chunks)
             doc_id == GroupKey(chunk)
             known == \E g \in 1..Len(groups) : groups[g].document_id = doc_id
             g1 == IF known THEN groups
                   ELSE Append(groups, [document_id |-> doc_id,
                                        metadata |-> chunk.metadata,
                                        chunks |-> <<>>])
         IN AddToGroups(
              [g \in 1..Len(g1) |->
                 IF g1[g].document_id = doc_id
                 THEN [g1[g] EXCEPT !.chunks = Append(@, GroupedChunk(chunk))]
                 ELSE g1[g]],
              Tail(chunks))

\* _group_chunks_by_document without the sort of each group's chunks
group_chunks_in_arrival_order(chunks) ==
    AddToGroups(<<>>, chunks)

_group_chunks_by_document(chunks) ==
    LET groups == AddToGroups(<<>>, chunks)
    IN [g \in 1..Len(groups) |->
          [groups[g] EXCEPT !.chunks = SortByScoreDesc(@)]]

\* top_k = top_k or self.top_k_results (0 stands for None)
EffectiveTopK(top_k) == IF top_k = 0 THEN top_k_results ELSE top_k

\* search_documents whose threshold filter keeps score > threshold
search_documents_strict_filter(emb_ok, outcome) ==
    IF ~emb_ok \/ outcome.raised THEN [error |-> "failed"]
    ELSE
    LET similar_chunks == outcome.matches
        normalized_chunks ==
            [i \in 1..Len(similar_chunks) |->
               [id |-> similar_chunks[i].id,
                score |-> similar_chunks[i].score,
                content |-> Get(similar_chunks[i].metadata, "text", <<>>),
                metadata |-> similar_chunks[i].metadata]]
        above == SelectSeq(normalized_chunks,
                           LAMBDA c : c.score > similarity_threshold)
        filtered_chunks ==
            IF above # <<>> THEN above
            ELSE LET sorted == SortByScoreDesc(normalized_chunks)
                 IN SubSeq(sorted, 1, Min(FallbackCount, Len(sorted)))
        document_chunks == _group_chunks_by_document(filtered_chunks)
        contents == SelectSeq([i \in 1..Len(filtered_chunks) |->
                                   filtered_chunks[i].content],
                              LAMBDA c : c # <<>>)
    IN [success |-> TRUE,
        total_results |-> Len(filtered_chunks),
        document_results |-> Len(document_chunks),
        results |-> document_chunks,
        context_text |-> Strip(Join(<<"\n">>, contents))]

\* search_documents after top_k is fixed.  emb_ok is whether embedding the
\* query returns; outcome is what the index query does.
search_documents(emb_ok, outcome) ==
    IF ~emb_ok THEN [error |-> "embedding failed"]
    ELSE LET search_response == search_similar(outcome)
         IN IF "results" \notin DOMAIN search_response
            THEN \* the error dict is iterated by key; str.get raises
                 [error |-> "'str' object has no attribute 'get'"]
            ELSE
    LET similar_chunks == search_response.results
        normalized_chunks ==
            [i \in 1..Len(similar_chunks) |->
               [id |-> similar_chunks[i].id,
                score |-> similar_chunks[i].score,
                content |-> Get(similar_chunks[i].metadata, "text", <<>>),
                metadata |-> similar_chunks[i].metadata]]
        above == SelectSeq(normalized_chunks,
                           LAMBDA c : c.score >= similarity_threshold)
        filtered_chunks ==
            IF above # <<>> THEN above
            ELSE LET sorted == SortByScoreDesc(normalized_chunks)
                 IN SubSeq(sorted, 1, Min(FallbackCount, Len(sorted)))
        document_chunks == _group_chunks_by_document(filtered_chunks)
        contents == SelectSeq([i \in 1..Len(filtered_chunks) |->
                                   filtered_chunks[i].content],
                              LAMBDA c : c # <<>>)
    IN [success |-> TRUE,
        total_results |-> Len(filtered_chunks),
        document_results |-> Len(document_chunks),
        results |-> document_chunks,
        context_text |-> Strip(Join(<<"\n">>, contents))]

\* get_document_context(document_id, query, top_k), given the payload of its
\* search_documents(query, top_k, {'document_id': document_id}) call
get_document_context(document_id, search_results) ==
    IF "error" \in DOMAIN search_results THEN search_results
    ELSE IF search_results.results = <<>>
    THEN [success |-> TRUE, document_id |-> document_id,
          context_chunks |-> <<>>, chunk_count |-> 0]
    ELSE LET results == search_results.results
             hits == {g \in 1..Len(results) :
                         IsSubstring(document_id, results[g].document_id)}
             first == CHOOSE g \in hits : \A h \in hits : g <= h
             context_chunks == IF hits = {} THEN <<>> ELSE results[first].chunks
         IN [success |-> TRUE, document_id |-> document_id,
             context_chunks |-> context_chunks,
             chunk_count |-> Len(context_chunks)]

\* the for loops of answer_question: the content of every chunk of every
\* group, group after group
RECURSIVE ContentsOf(_)
ContentsOf(results) ==
    IF results = <<>> THEN <<>>
    ELSE [i \in 1..Len(Head(results).chunks) |-> Head(results).chunks[i].content]
         \o ContentsOf(Tail(results))

\* a context that is cut to max_context_length without a marker
answer_question_context_unmarked(search_results) ==
    LET context == Join(<<"\n", "\n">>, ContentsOf(search_results.results))
    IN SubSeq(context, 1, Min(Len(context), max_context_length))

\* the context answer_question hands to chat_with_context for a success
\* payload of search_documents
answer_question_context(search_results) ==
    LET context == Join(<<"\n", "\n">>, ContentsOf(search_results.results))
    IN IF Len(context) > max_context_length
       THEN SubSeq(context, 1, max_context_length) \o <<".", ".", ".">>
       ELSE context

\* answer_question that lets a failure of chat_with_context through
answer_question_uncaught(search_results, chat_ok) ==
    IF "error" \in DOMAIN search_results THEN search_results
    ELSE IF ~chat_ok THEN [raised |-> "ClientError"]
    ELSE [success |-> TRUE,
          context_chunks |-> Len(ContentsOf(search_results.results)),
          context_length |-> Len(answer_question_context(search_results)),
          sources |-> <<>>]

\* answer_question(question, context_limit), given the payload of its
\* search_documents(question, top_k=context_limit) call.  chat_ok is
\* whether chat_with_context returns an answer rather than raises.
answer_question(search_results, chat_ok) ==
    IF "error" \in DOMAIN search_results THEN search_results
    ELSE IF ~chat_ok THEN [error |-> "generation failed"]
    ELSE LET results == search_results.results
         IN [success |-> TRUE,
             context_chunks |-> Len(ContentsOf(results)),
             context_length |-> Len(answer_question_context(search_results)),
             sources |-> [g \in 1..Len(results) |->
                            [document_id |-> results[g].document_id,
                             chunk_count |-> Len(results[g].chunks),
                             metadata |-> results[g].metadata]]]

\* the call answer_question makes after its search: chat_with_context
\* (line 296), unless the search returned an error
answer_question_calls(search_results, chat_ok) ==
    IF "error" \in DOMAIN search_results THEN <<>>
    ELSE <<[fn |-> "chat_with_context", ok |-> chat_ok,
            context |-> answer_question_context(search_results)]>>

\* KnowledgeAgent.ask_question: the context it hands to chat_with_context.
\* With a document_filter (<<>> stands for None) search_result is the
\* payload of get_document_context, without one that of search_documents.
ask_question_context(document_filter, search_result) ==
    IF document_filter # <<>>
    THEN LET context_chunks == search_result.context_chunks
             contents == SelectSeq([i \in 1..Len(context_chunks) |->
                                        context_chunks[i].content],
                                   LAMBDA c : c # <<>>)
         IN Strip(Join(<<"\n">>, contents))
    ELSE search_result.context_text

\* KnowledgeAgent.ask_question(question, context_limit, document_filter),
\* given the payload of its retrieval call
ask_question(document_filter, search_result, chat_ok) ==
    IF "error" \in DOMAIN search_result THEN search_result
    ELSE IF Strip(ask_question_context(document_filter, search_result)) = <<>>
    THEN [success |-> TRUE, answer |-> "none found", context_chunks |-> 0]
    ELSE IF ~chat_ok THEN [error |-> "generation failed"]
    ELSE IF document_filter # <<>>
    THEN [success |-> TRUE, answer |-> "answer",
          context_chunks |-> Len(search_result.context_chunks),
          document_id |-> document_filter]
    ELSE [success |-> TRUE, answer |-> "answer",
          context_chunks |-> search_result.total_results,
          documents_considered |-> search_result.document_results]

\* the call ask_question makes after its retrieval call: chat_with_context
\* (lines 211 and 249), unless retrieval failed or found no context
ask_question_calls(document_filter, search_result, chat_ok) ==
    IF "error" \in DOMAIN search_result THEN <<>>
    ELSE IF Strip(ask_question_context(document_filter, search_result)) = <<>>
    THEN <<>>
    ELSE <<[fn |-> "chat_with_context", ok |-> chat_ok,
            context |-> ask_question_context(document_filter, search_result)]>>

\* get_index_stats().  stats_ok is whether describe_index_stats returns
\* rather than raises; PineconeService.get_index_stats returns None then.
get_index_stats(idx, idim, stats_ok) ==
    IF stats_ok
    THEN [success |-> TRUE,
          stats |-> [dimension |-> idim,
                     total_vector_count |-> Cardinality(DOMAIN idx)]]
    ELSE [error |-> "Failed to get index stats"]

\* the methods class PineconeService defines
PineconeServiceMethods == {"ensure_index_exists", "validate_index_dimension", "index_document", "upsert_vectors", "search_similar", "delete_document", "get_index_stats"}

\* hybrid_search(query, top_k, weight) after top_k is fixed.  The call
\* self.pinecone_service.hybrid_search(...) looks the method up on the
\* PineconeService object; outcome is what a backend that had the method
\* would return.
hybrid_search(emb_ok, weight, outcome) ==
    IF ~emb_ok THEN [error |-> "embedding failed"]
    ELSE IF "hybrid_search" \notin PineconeServiceMethods
    THEN [error |-> "'PineconeService' object has no attribute 'hybrid_search'"]
    ELSE IF outcome.raised THEN [error |-> "query failed"]
    ELSE
    LET results == outcome.matches
        filtered_results == SelectSeq(results,
                               LAMBDA r : r.score >= similarity_threshold)
        document_chunks == _group_chunks_by_document(filtered_results)
    IN [success |-> TRUE,
        total_results |-> Len(filtered_results),
        document_results |-> Len(document_chunks),
        results |-> document_chunks,
        search_type |-> "hybrid",
        vector_weight |-> weight]

\* what the lookup and call of the index's hybrid_search can do: without
\* the method it can only raise
HybridOutcomes(idx, top_k, scores) ==
    IF "hybrid_search" \in PineconeServiceMethods
    THEN QueryOutcomes(idx, top_k, NoMeta, scores)
    ELSE {[raised |-> TRUE]}

\* the calls hybrid_search makes: generate_embeddings (line 229); looking up
\* the index's hybrid_search (line 232) raises before any call on the index
hybrid_search_calls(emb_ok) ==
    <<[fn |-> "generate_embeddings", ok |-> emb_ok]>>

----------------------------------------------------------------------------
(* State machine: a client issues the calls one after the other.  call is  *)
(* the call issued last and ret what it returned; issued lists the calls   *)
(* that the last step made on the embedding service and on the vector      *)
(* index, in order, with what each call did.  update_document_index takes  *)
(* two steps, its delete step and its index_document step; between the two *)
(* the call is in flight and has returned nothing yet.                     *)

EmptyIndex == [id \in {} |-> 0]
Idle == [pc |-> "idle"]
Pending == [pending |-> TRUE]
NotSeen == [pc |-> "none"]

\* what the embedding service and the upsert request can do in one
\* index_document call
IndexOutcomes ==
    {[emb_ok |-> FALSE, dim |-> DefaultIndexDimension, upsert_ok |-> FALSE]}
    \cup [emb_ok : {TRUE}, dim : EmbeddingDims, upsert_ok : BOOLEAN]

\* the calls index_document makes on its services: generate_embeddings
\* (line 53), then upsert_vectors (line 71) unless the former raised
index_chunks_calls(n, emb_ok, upsert_ok) ==
    IF ~emb_ok /\ n > 0
    THEN <<[fn |-> "generate_embeddings", ok |-> FALSE]>>
    ELSE <<[fn |-> "generate_embeddings", ok |-> TRUE],
           [fn |-> "upsert_vectors", ok |-> (n > 0 /\ upsert_ok)]>>

index_document_calls(text_content, emb_ok, upsert_ok) ==
    index_chunks_calls(Len(_split_text(text_content)), emb_ok, upsert_ok)

\* the calls _delete_document_chunks makes: search_similar (line 519); the
\* loop raises before its first delete_document call (line 528)
delete_document_chunks_calls(outcome) ==
    <<[fn |-> "search_similar", ok |-> ~outcome.raised]>>

\* the calls search_documents makes: generate_embeddings (line 153), then
\* search_similar (line 156) unless the former raised
search_documents_calls(emb_ok, outcome) ==
    IF ~emb_ok
    THEN <<[fn |-> "generate_embeddings", ok |-> FALSE]>>
    ELSE <<[fn |-> "generate_embeddings", ok |-> TRUE],
           IF outcome.raised
           THEN [fn |-> "search_similar", ok |-> FALSE]
           ELSE [fn |-> "search_similar", ok |-> TRUE,
                 matches |-> outcome.matches]>>

Init ==
    /\ index = EmptyIndex
    /\ index_dim \in EmbeddingDims
    /\ upd = Idle
    /\ call = [op |-> "none"]
    /\ ret = Pending
    /\ issued = <<>>
    /\ seen = NotSeen

IndexDocument(document_id, text_content, metadata, o) ==
    /\ upd.pc = "idle"
    /\ LET r == index_document(index, index_dim, document_id, text_content,
                               metadata, o.emb_ok, o.dim, o.upsert_ok)
       IN /\ index' = r.index
          /\ index_dim' = r.index_dim
          /\ ret' = r.ret
    /\ call' = [op |-> "index_document", document_id |-> document_id,
                text_content |-> text_content, metadata |-> metadata]
    /\ issued' = index_document_calls(text_content, o.emb_ok, o.upsert_ok)
    /\ UNCHANGED upd
    /\ UNCHANGED seen

DeleteDocumentIndex(document_id, outcome) ==
    /\ upd.pc = "idle"
    /\ LET r == delete_document_index(index, document_id,
                                      search_similar(outcome))
       IN /\ index' = r.index
          /\ ret' = r.ret
    /\ call' = [op |-> "delete_document_index", document_id |-> document_id]
    /\ issued' = delete_document_chunks_calls(outcome)
    /\ UNCHANGED <<index_dim, upd>>
    /\ UNCHANGED seen

\* update_document_index, line 370: self._delete_document_chunks(document_id)
UpdateDelete(document_id, text_content, metadata, outcome) ==
    /\ upd.pc = "idle"
    /\ index' = _delete_document_chunks(index, document_id,
                                        search_similar(outcome)).index
    /\ upd' = [pc |-> "reindex", metadata |-> metadata]
    /\ call' = [op |-> "update_document_index", document_id |-> document_id,
                text_content |-> text_content]
    /\ ret' = Pending
    /\ issued' = delete_document_chunks_calls(outcome)
    /\ UNCHANGED index_dim
    /\ UNCHANGED seen

\* update_document_index, line 373: return self.index_document(...)
UpdateReindex(o) ==
    /\ upd.pc = "reindex"
    /\ LET r == index_document(index, index_dim, call.document_id,
                               call.text_content, upd.metadata,
                               o.emb_ok, o.dim, o.upsert_ok)
       IN /\ index' = r.index
          /\ index_dim' = r.index_dim
          /\ ret' = r.ret
    /\ upd' = Idle
    /\ issued' = issued \o index_document_calls(call.text_content, o.emb_ok,
                                                o.upsert_ok)
    /\ UNCHANGED call
    /\ UNCHANGED seen

GetDocumentContext(document_id, top_k, emb_ok, outcome) ==
    /\ upd.pc = "idle"
    /\ ret' = get_document_context(document_id,
                                   search_documents(emb_ok, outcome))
    /\ call' = [op |-> "get_document_context", document_id |-> document_id]
    /\ issued' = search_documents_calls(emb_ok, outcome)
    /\ UNCHANGED <<index, index_dim, upd>>
    /\ UNCHANGED seen

Next ==
    \/ \E d \in DocIds, t \in Texts, m \in Metas, o \in IndexOutcomes :
          IndexDocument(d, t, m, o)
    \/ \E d \in DocIds :
          \E o \in QueryOutcomes(index, DeleteFetchCeiling,
                                 [document_id |-> d], ZeroScores) :
             DeleteDocumentIndex(d, o)
    \/ \E d \in DocIds, t \in Texts, m \in Metas :
          \E o \in QueryOutcomes(index, DeleteFetchCeiling,
                                 [document_id |-> d], ZeroScores) :
             UpdateDelete(d, t, m, o)
    \/ \E o \in IndexOutcomes : UpdateReindex(o)
    \/ \E d \in DocIds, k \in 1..MaxTopK, emb_ok \in BOOLEAN :
          \E o \in QueryOutcomes(index, EffectiveTopK(k),
                                 [document_id |-> d], Scores) :
             GetDocumentContext(d, k, emb_ok, o)

Spec == Init /\ [][Next]_vars

----------------------------------------------------------------------------
(* Retrieval against a populated index: one retrieval call of a client,    *)
(* with every order and every scoring of the matches the index can return. *)

\* the index after index_document(a, p..p) and index_document(ab, q..q)
SearchIndex ==
    LET first == index_document(EmptyIndex, DefaultIndexDimension, DocSeq[1],
                                Rep("p", MaxTextLen), NoMeta,
                                TRUE, DefaultIndexDimension, TRUE)
    IN index_document(first.index, first.index_dim, DocSeq[2],
                      Rep("q", MaxTextLen), NoMeta,
                      TRUE, DefaultIndexDimension, TRUE).index

\* the index after index_document(a, p..p, {'document_id': ''}): the
\* caller's key replaces the document id in the metadata of every chunk
UnkeyedIndex ==
    index_document(EmptyIndex, DefaultIndexDimension, DocSeq[1],
                   Rep("p", MaxTextLen), [document_id |-> <<>>],
                   TRUE, DefaultIndexDimension, TRUE).index

InitSearch ==
    /\ index \in {EmptyIndex, SearchIndex, UnkeyedIndex}
    /\ index_dim = DefaultIndexDimension
    /\ upd = Idle
    /\ call = [op |-> "none"]
    /\ ret = Pending
    /\ issued = <<>>
    /\ seen = NotSeen

SearchDocuments(query, top_k, filters, emb_ok, outcome) ==
    /\ upd.pc = "idle"
    /\ ret' = search_documents(emb_ok, outcome)
    /\ call' = [op |-> "search_documents", query |-> query, top_k |-> top_k,
                filters |-> filters]
    /\ issued' = search_documents_calls(emb_ok, outcome)
    /\ UNCHANGED <<index, index_dim, upd>>
    /\ UNCHANGED seen

HybridSearch(query, top_k, weight, emb_ok, outcome) ==
    /\ upd.pc = "idle"
    /\ ret' = hybrid_search(emb_ok, weight, outcome)
    /\ call' = [op |-> "hybrid_search", query |-> query, top_k |-> top_k,
                weight |-> weight]
    /\ issued' = hybrid_search_calls(emb_ok)
    /\ UNCHANGED <<index, index_dim, upd>>
    /\ UNCHANGED seen

AnswerQuestion(question, context_limit, emb_ok, outcome, chat_ok) ==
    /\ upd.pc = "idle"
    /\ LET search_results == search_documents(emb_ok, outcome)
       IN /\ ret' = answer_question(search_results, chat_ok)
          /\ issued' = search_documents_calls(emb_ok, outcome)
                          \o answer_question_calls(search_results, chat_ok)
    /\ call' = [op |-> "answer_question", question |-> question,
                context_limit |-> context_limit]
    /\ UNCHANGED <<index, index_dim, upd>>
    /\ UNCHANGED seen

\* KnowledgeAgent.ask_question: context_limit or 5 is the top_k of its
\* retrieval call (lines 190 and 229)
AskQuestion(question, context_limit, document_filter, emb_ok, outcome, chat_ok) ==
    /\ upd.pc = "idle"
    /\ LET found == search_documents(emb_ok, outcome)
           search_result == IF document_filter # <<>>
                            THEN get_document_context(document_filter, found)
                            ELSE found
       IN /\ ret' = ask_question(document_filter, search_result, chat_ok)
          /\ issued' = search_documents_calls(emb_ok, outcome)
                          \o ask_question_calls(document_filter, search_result, chat_ok)
    /\ call' = [op |-> "ask_question", question |-> question,
                context_limit |-> context_limit,
                document_filter |-> document_filter]
    /\ UNCHANGED <<index, index_dim, upd>>
    /\ UNCHANGED seen

\* the filter of ask_question's retrieval call
AskFilter(document_filter) ==
    IF document_filter # <<>> THEN [document_id |-> document_filter] ELSE NoMeta

NextSearch ==
    /\ call.op = "none"
    /\ \/ \E q \in Queries, k \in TopKs, f \in SearchFilters, emb_ok \in BOOLEAN :
             \E o \in AnyQueryOutcomes(index, EffectiveTopK(k), f, SearchScores) :
                SearchDocuments(q, k, f, emb_ok, o)
       \/ \E q \in Queries, k \in TopKs, w \in Weights, emb_ok \in BOOLEAN :
             \E o \in HybridOutcomes(index, EffectiveTopK(k), Scores) :
                HybridSearch(q, k, w, emb_ok, o)
       \/ \E k \in TopKs, emb_ok \in BOOLEAN, chat_ok \in BOOLEAN :
             \E o \in AnyQueryOutcomes(index, EffectiveTopK(k), NoMeta, SearchScores) :
                AnswerQuestion(<<"w">>, k, emb_ok, o, chat_ok)
       \/ \E k \in TopKs, f \in {<<>>} \cup DocIds, emb_ok \in BOOLEAN, chat_ok \in BOOLEAN :
             \E o \in AnyQueryOutcomes(index, EffectiveTopK(k), AskFilter(f), SearchScores) :
                AskQuestion(<<"w">>, k, f, emb_ok, o, chat_ok)

SpecSearch == InitSearch /\ [][NextSearch]_vars

----------------------------------------------------------------------------
(* Every public operation of RAGSystem: the index lifecycle above together *)
(* with the retrieval calls, the index returning its matches best first.   *)

GetIndexStats(stats_ok) ==
    /\ upd.pc = "idle"
    /\ ret' = get_index_stats(index, index_dim, stats_ok)
    /\ call' = [op |-> "get_index_stats"]
    /\ issued' = <<[fn |-> "get_index_stats", ok |-> stats_ok]>>
    /\ UNCHANGED <<index, index_dim, upd>>
    /\ UNCHANGED seen

NextAll ==
    \/ Next
    \/ \E k \in {0, MaxTopK}, emb_ok \in BOOLEAN :
          \E o \in QueryOutcomes(index, EffectiveTopK(k), NoMeta, Scores) :
             SearchDocuments(<<"w">>, k, NoMeta, emb_ok, o)
    \/ \E k \in {0, MaxTopK}, w \in Weights, emb_ok \in BOOLEAN :
          \E o \in HybridOutcomes(index, EffectiveTopK(k), Scores) :
             HybridSearch(<<"w">>, k, w, emb_ok, o)
    \/ \E k \in {0, MaxTopK}, emb_ok \in BOOLEAN, chat_ok \in BOOLEAN :
          \E o \in QueryOutcomes(index, EffectiveTopK(k), NoMeta, Scores) :
             AnswerQuestion(<<"w">>, k, emb_ok, o, chat_ok)
    \/ \E stats_ok \in BOOLEAN : GetIndexStats(stats_ok)

SpecAll == Init /\ [][NextAll]_vars

-----------------------------------------------------------------------------
(* A second client that queries a document while update_document_index is *)
(* between its two steps or has just returned.  RAGSystem holds no lock:   *)
(* the query of the second client reads the index as the update's last     *)
(* finished step left it.  seen is what that query returned, with the      *)
(* position of the update when it ran.                                     *)

ConcurrentQuery(document_id, top_k, emb_ok, outcome) ==
    /\ call.op = "update_document_index"
    /\ seen' = [pc |-> upd.pc, document_id |-> document_id,
                ret |-> get_document_context(document_id,
                                             search_documents(emb_ok, outcome))]
    /\ UNCHANGED <<index, index_dim, upd, call, ret, issued>>

NextConcurrent ==
    /\ seen = NotSeen
    /\ \/ \E d \in DocIds, t \in Texts, o \in IndexOutcomes :
             IndexDocument(d, t, NoMeta, o)
       \/ \E d \in DocIds, t \in Texts :
             \E o \in QueryOutcomes(index, DeleteFetchCeiling,
                                    [document_id |-> d], ZeroScores) :
                UpdateDelete(d, t, NoMeta, o)
       \/ \E o \in IndexOutcomes : UpdateReindex(o)
       \/ \E d \in DocIds, k \in 1..MaxTopK, emb_ok \in BOOLEAN :
             \E o \in QueryOutcomes(index, EffectiveTopK(k),
                                    [document_id |-> d], Scores) :
                ConcurrentQuery(d, k, emb_ok, o)

SpecConcurrent == Init /\ [][NextConcurrent]_vars

-----------------------------------------------------------------------------
(* Construction under any chunking configuration.  CHUNK_SIZE and          *)
(* CHUNK_OVERLAP come from the environment (config.py lines 60-61) and are *)
(* handed to the text splitter by RAGSystem.__init__ (lines 27-32).        *)

ChunkSizes == 1..(chunk_size + 1)
ChunkOverlaps == 0..(chunk_size + 1)

RECURSIVE StringsOver(_, _)
StringsOver(alphabet, n) ==
    IF n = 0 THEN {<<>>}
    ELSE StringsOver(alphabet, n - 1)
         \cup {Append(s, c) : s \in {t \in StringsOver(alphabet, n - 1) : Len(t) = n - 1},
                              c \in alphabet}

ChunkTexts == StringsOver({"p", "q", " "}, MaxTextLen)

\* RAGSystem.__init__: DocumentConfig checks nothing, and the splitter's
\* constructor raises ValueError for an overlap larger than the chunk size
text_splitter_init(size, overlap) ==
    IF overlap > size
    THEN [raised |-> "ValueError"]
    ELSE [success |-> TRUE, chunk_size |-> size, chunk_overlap |-> overlap]

InitChunk ==
    /\ index = EmptyIndex
    /\ index_dim = DefaultIndexDimension
    /\ upd = Idle
    /\ call = [op |-> "none"]
    /\ ret = Pending
    /\ issued = <<>>
    /\ seen = NotSeen

Construct(size, overlap) ==
    /\ call.op = "none"
    /\ call' = [op |-> "RAGSystem", chunk_size |-> size, chunk_overlap |-> overlap]
    /\ ret' = text_splitter_init(size, overlap)
    /\ UNCHANGED <<index, index_dim, upd, issued>>
    /\ UNCHANGED seen

\* index_document on the system constructed by the previous step
IndexConfigured(document_id, text_content, o) ==
    /\ call.op = "RAGSystem"
    /\ "success" \in DOMAIN ret
    /\ LET chunks == _split_text_with(text_content, ret.chunk_size, ret.chunk_overlap)
           r == index_chunks(index, index_dim, document_id, chunks, NoMeta,
                             o.emb_ok, o.dim, o.upsert_ok)
       IN /\ index' = r.index
          /\ index_dim' = r.index_dim
          /\ ret' = r.ret
          /\ issued' = index_chunks_calls(Len(chunks), o.emb_ok, o.upsert_ok)
    /\ call' = [op |-> "index_document", document_id |-> document_id,
                text_content |-> text_content,
                chunk_size |-> call.chunk_size, chunk_overlap |-> call.chunk_overlap]
    /\ UNCHANGED upd
    /\ UNCHANGED seen

NextChunk ==
    \/ \E size \in ChunkSizes, overlap \in ChunkOverlaps : Construct(size, overlap)
    \/ \E text_content \in ChunkTexts, o \in IndexOutcomes :
          IndexConfigured(<<"a">>, text_content, o)

SpecChunk == InitChunk /\ [][NextChunk]_vars

----------------------------------------------------------------------------
(* Properties *)

Succeeded(r) == "success" \in DOMAIN r

\* the entries a query scoped to document d can return
EntriesOf(idx, d) == Matching(idx, [document_id |-> d])

\* every entry carries only the keys index_document writes by itself: no
\* caller passed a metadata map
NoCallerMetadata ==
    \A id \in DOMAIN index :
        DOMAIN index[id].metadata =
            {"document_id", "chunk_index", "chunk_count", "text"}

\* entry id holds chunk number i of text, as index_document embeds it
HoldsChunkOf(idx, id, d, text) ==
    \E i \in 1..Len(split_text(text)) :
        /\ id = ChunkId(d, i - 1)
        /\ idx[id].values.of = split_text(text)[i]

\* C1: after a successful update_document_index(d, new_text, m) every entry
\* that a search scoped to d can return holds a chunk of new_text; no entry
\* of the previous text stays queryable.  Stated for callers that pass no
\* metadata map.
C1_UpdateLeavesOnlyNewChunks ==
    (/\ call.op = "update_document_index"
     /\ Succeeded(ret)
     /\ NoCallerMetadata)
    => \A id \in EntriesOf(index, call.document_id) :
          HoldsChunkOf(index, id, call.document_id, call.text_content)

\* C2: a get_document_context(d, q) that follows a successful
\* delete_document_index(d) returns chunk_count = 0 and no context chunk.
C2_ContextEmptyAfterDelete ==
    [][(/\ call.op = "delete_document_index"
        /\ Succeeded(ret)
        /\ call'.op = "get_document_context"
        /\ call'.document_id = call.document_id
        /\ Succeeded(ret'))
       => (ret'.chunk_count = 0 /\ ret'.context_chunks = <<>>)]_vars

\* C3: delete_document_index(d) returns as deleted_chunks the number of
\* entries of d that were in the index before the call and are not after
\* it, and it removes no entry of another document.
C3_DeletedChunksIsNumberRemoved ==
    [][(call'.op = "delete_document_index" /\ Succeeded(ret'))
       => LET d == call'.document_id
              removed == DOMAIN index \ DOMAIN index'
          IN /\ ret'.deleted_chunks =
                   Cardinality(EntriesOf(index, d) \cap removed)
             /\ removed \subseteq EntriesOf(index, d)
             /\ \A id \in DOMAIN index' :
                   id \in DOMAIN index /\ index'[id] = index[id]]_vars

\* delete_document_index has returned for a document that has entries
C3_Witness ==
    /\ call.op = "delete_document_index"
    /\ Succeeded(ret)
    /\ EntriesOf(index, call.document_id) # {}

\* C4: delete_document_index(d) for a document without entries returns
\* success with deleted_chunks = 0 and leaves the index as it is; a second
\* delete_document_index(d) right after the first leaves the index as the
\* first left it and deletes nothing.
C4_DeleteIdempotent ==
    [][call'.op = "delete_document_index"
       => LET d == call'.document_id
          IN /\ EntriesOf(index, d) = {}
                  => /\ Succeeded(ret')
                     /\ ret'.deleted_chunks = 0
                     /\ index' = index
             /\ \A o \in QueryOutcomes(index', DeleteFetchCeiling,
                                       [document_id |-> d], ZeroScores) :
                   LET again == delete_document_index(index', d,
                                                      search_similar(o))
                   IN /\ again.index = index'
                      /\ Succeeded(again.ret)
                      /\ Succeeded(ret')
                           => again.ret.deleted_chunks = 0]_vars

\* delete_document_index has returned success with 0 for a document that
\* has no entry, while the index holds entries of another document
C4_Witness ==
    /\ call.op = "delete_document_index"
    /\ Succeeded(ret)
    /\ ret.deleted_chunks = 0
    /\ EntriesOf(index, call.document_id) = {}
    /\ index # EmptyIndex

\* C5: a success payload of index_document with chunk_count = n means that
\* the n entries of the document were written: each chunk of the text is in
\* the index under its chunk id, or the payload reports indexed_count.
C5_SuccessMeansWritten ==
    (call.op = "index_document" /\ Succeeded(ret))
    => \/ "indexed_count" \in DOMAIN ret
       \/ \A i \in 0..(ret.chunk_count - 1) :
             ChunkId(call.document_id, i) \in DOMAIN index

\* C6: when the delete step of update_document_index leaves an entry of the
\* document in the index, the update does not return a plain success.
C6_UpdateReportsPartialDelete ==
    [][(/\ upd.pc = "reindex"
        /\ upd'.pc = "idle"
        /\ EntriesOf(index, call.document_id) # {})
       => ~Succeeded(ret')]_vars

\* C7: when update_document_index(d, ...) issues the upsert of its new
\* chunks, its delete step has removed every entry whose metadata
\* document_id is d: the step that upserts starts from an index without
\* entries of d.
C7_DeleteCompleteBeforeUpsert ==
    [][(/\ upd.pc = "reindex"
        /\ upd'.pc = "idle"
        /\ Succeeded(ret')
        /\ ret'.chunk_count > 0)
       => EntriesOf(index, call.document_id) = {}]_vars

\* C8: between calls, the chunk_count in the metadata of every entry equals
\* the number of entries of its document.  Stated for callers that pass no
\* metadata map.
C8_ChunkCountMatchesEntries ==
    (upd.pc = "idle" /\ NoCallerMetadata)
    => \A id \in DOMAIN index :
          index[id].metadata.chunk_count =
             Cardinality(EntriesOf(index, index[id].metadata.document_id))

\* C9: every entry's id is the chunk id of exactly one (document_id,
\* chunk_index), and the entry carries that pair in its metadata.
C9_ChunkIdTraceable ==
    \A id \in DOMAIN index :
        LET pairs == {p \in DocIds \X (0..(MaxChunks - 1)) :
                         ChunkId(p[1], p[2]) = id}
        IN /\ Cardinality(pairs) = 1
           /\ \A p \in pairs :
                 /\ index[id].metadata.document_id = p[1]
                 /\ index[id].metadata.chunk_index = p[2]

\* C10: every entry that index_document writes for chunk i of document d
\* carries document_id = d, chunk_index = i, chunk_count = number of chunks
\* and text = the chunk's text, whatever metadata map the caller passes.
C10_ReservedKeysKept ==
    [][(call'.op = "index_document" /\ Succeeded(ret'))
       => LET d == call'.document_id
              chunks == split_text(call'.text_content)
          IN \A i \in 1..Len(chunks) :
                LET id == ChunkId(d, i - 1)
                IN (/\ id \in DOMAIN index'
                    /\ (id \notin DOMAIN index \/ index[id] # index'[id]))
                   => /\ index'[id].metadata.document_id = d
                      /\ index'[id].metadata.chunk_index = i - 1
                      /\ index'[id].metadata.chunk_count = Len(chunks)
                      /\ index'[id].metadata.text = chunks[i]]_vars

----------------------------------------------------------------------------
(* Properties of a retrieval call *)

\* search_documents has returned a success payload
SearchReturned == call.op = "search_documents" /\ Succeeded(ret)

\* the candidates the index returned to the call, in the order it returned
\* them
Candidates == issued[2].matches

\* chunk id and score of the candidates numbered in I
CandidateHits(I) == {[id |-> Candidates[i].id, score |-> Candidates[i].score] : i \in I}

\* chunk id and score of every chunk of every group of a payload
Hits(r) ==
    UNION {{[id |-> r.results[g].chunks[i].chunk_id,
             score |-> r.results[g].chunks[i].score] :
               i \in 1..Len(r.results[g].chunks)} : g \in 1..Len(r.results)}

AtOrAbove == {i \in 1..Len(Candidates) : Candidates[i].score >= similarity_threshold}

\* C11: when at least one candidate the index returned has score >=
\* similarity_threshold, the chunks of a success payload of search_documents
\* are exactly the candidates with score >= similarity_threshold, each with
\* its score, and total_results counts them.
C11_ThresholdKeepsExactlyQualifying ==
    (SearchReturned /\ AtOrAbove # {})
    => /\ Hits(ret) = CandidateHits(AtOrAbove)
       /\ ret.total_results = Cardinality(AtOrAbove)

\* search_documents has returned for candidates of which one scores exactly
\* the threshold, one above it and one below it
C11_Witness ==
    /\ SearchReturned
    /\ \E i, j, k \in 1..Len(Candidates) :
          /\ Candidates[i].score = similarity_threshold
          /\ Candidates[j].score > similarity_threshold
          /\ Candidates[k].score < similarity_threshold

\* C12: when the index returned n >= 1 candidates and each scores below
\* similarity_threshold, a success payload of search_documents holds exactly
\* min(3, n) chunks, all of them candidates, and no candidate left out
\* scores higher than one that is kept.
C12_FallbackKeepsThreeBest ==
    (SearchReturned /\ Len(Candidates) >= 1 /\ AtOrAbove = {})
    => LET n == Len(Candidates)
           all == CandidateHits(1..n)
       IN /\ ret.total_results = Min(3, n)
          /\ Cardinality(Hits(ret)) = Min(3, n)
          /\ Hits(ret) \subseteq all
          /\ \A h \in Hits(ret), c \in all \ Hits(ret) : h.score >= c.score

\* search_documents has returned for more than three candidates, all below
\* the threshold, the first of which scores lowest, and the call asked for
\* another number than three
C12_Witness ==
    /\ SearchReturned
    /\ Len(Candidates) > 3
    /\ AtOrAbove = {}
    /\ \E i \in 2..Len(Candidates) : Candidates[1].score < Candidates[i].score
    /\ EffectiveTopK(call.top_k) # 3

\* C13: in every success payload of search_documents the chunks of each
\* group are in order of non-increasing score.
C13_GroupChunksSortedByScore ==
    SearchReturned
    => \A g \in 1..Len(ret.results) :
          \A i, j \in 1..Len(ret.results[g].chunks) :
             i < j => ret.results[g].chunks[i].score >= ret.results[g].chunks[j].score

\* search_documents has returned a group of two chunks for candidates that
\* the index returned lowest score first, all at or above the threshold
C13_Witness ==
    /\ SearchReturned
    /\ Len(Candidates) >= 2
    /\ \A i \in 1..Len(Candidates) : i \in AtOrAbove
    /\ \A i \in 1..(Len(Candidates) - 1) : Candidates[i].score < Candidates[i + 1].score
    /\ \E g \in 1..Len(ret.results) : Len(ret.results[g].chunks) >= 2

\* the candidates a payload kept, in the order the index returned them
Survivors(r) ==
    SelectSeq(Candidates, LAMBDA c : \E h \in Hits(r) : h.id = c.id)

\* the orders of 1..n
Orders(n) == {p \in [1..n -> 1..n] : \A i, j \in 1..n : p[i] = p[j] => i = j}

\* C14: the context_text of a success payload of search_documents is the
\* content of the surviving candidates, joined in an order of non-increasing
\* score, whatever the order in which the index returned them.
C14_ContextTextScoreDescending ==
    SearchReturned
    => LET kept == Survivors(ret)
       IN \E p \in Orders(Len(kept)) :
             /\ \A i \in 1..(Len(kept) - 1) : kept[p[i]].score >= kept[p[i + 1]].score
             /\ ret.context_text =
                   Join(<<"\n">>, [i \in 1..Len(kept) |-> kept[p[i]].metadata.text])

\* C15: a success payload of search_documents(query, top_k, filters) has
\* total_results <= top_k, for every top_k the caller passes.
C15_TotalResultsAtMostTopK ==
    SearchReturned => ret.total_results <= call.top_k

\* C16: search_documents called with an empty query or with a top_k that is
\* not positive returns an error payload and calls neither the embedding
\* service nor the index.
C16_InvalidInputRejectedBeforeCalls ==
    (call.op = "search_documents" /\ (call.query = <<>> \/ call.top_k <= 0))
    => ("error" \in DOMAIN ret /\ issued = <<>>)

\* C17: hybrid_search(query, top_k, weight = 1.0), when the query embeds,
\* returns a success payload whose groups, chunks and their order are those
\* of a search_documents(query, top_k) on the same index.
C17_HybridWeightOneIsVectorSearch ==
    (call.op = "hybrid_search" /\ call.weight = 100 /\ issued[1].ok)
    => /\ Succeeded(ret)
       /\ \E o \in AnyQueryOutcomes(index, EffectiveTopK(call.top_k), NoMeta, Scores) :
             /\ ~o.raised
             /\ ret.results = search_documents(TRUE, o).results

----------------------------------------------------------------------------
(* Properties of the document-scoped and the failing calls *)

\* the chunks a search payload holds in the group of document d
ChunksOfGroup(r, d) ==
    LET G == {g \in 1..Len(r.results) : r.results[g].document_id = d}
    IN IF G = {} THEN <<>> ELSE r.results[CHOOSE g \in G : TRUE].chunks

\* C18: a successful get_document_context(d, q, k) queried the index with
\* the filter document_id = d (every match carries document_id = d), returns
\* exactly the chunks that the search_documents call on those matches puts
\* in the group of d, and returns no chunk of another document, also when
\* the index holds a document whose id contains d.
C18_ContextIsGroupOfDocument ==
    (call.op = "get_document_context" /\ Succeeded(ret))
    => LET d == call.document_id
           matches == issued[2].matches
           found == search_documents(TRUE, [raised |-> FALSE, matches |-> matches])
       IN /\ \A i \in 1..Len(matches) : matches[i].metadata.document_id = d
          /\ ret.context_chunks = ChunksOfGroup(found, d)
          /\ ret.chunk_count = Len(ret.context_chunks)
          /\ \A i \in 1..Len(ret.context_chunks) :
                ret.context_chunks[i].metadata.document_id = d

\* get_document_context(a) has returned chunks while the index holds entries
\* of document ab, whose id contains a
C18_Witness ==
    /\ call.op = "get_document_context"
    /\ Succeeded(ret)
    /\ call.document_id = DocSeq[1]
    /\ ret.chunk_count > 0
    /\ EntriesOf(index, DocSeq[2]) # {}

\* C19: every call of a public operation that has returned, returned a
\* payload with success = True or with an error key, also when a call on
\* the embedding service, the index or the generation service failed: no
\* failure of a service reaches the caller as an exception.
C19_EveryCallReturnsPayload ==
    (call.op # "none" /\ upd.pc = "idle")
    => \/ Succeeded(ret) /\ ret.success = TRUE
       \/ "error" \in DOMAIN ret

\* answer_question has returned an error payload after chat_with_context
\* raised on a context that the search had found
C19_Witness ==
    /\ call.op = "answer_question"
    /\ Len(issued) = 3
    /\ issued[3].fn = "chat_with_context"
    /\ ~issued[3].ok
    /\ issued[3].context # <<>>
    /\ "error" \in DOMAIN ret

\* C20: when the index query that locates a document's chunks fails,
\* delete_document_index and update_document_index do not return a success
\* payload.
C20_LocateFailureIsReported ==
    (/\ call.op \in {"delete_document_index", "update_document_index"}
     /\ upd.pc = "idle"
     /\ ~issued[1].ok)
    => ~Succeeded(ret)

----------------------------------------------------------------------------
(* Properties of context assembly *)

\* answer_question has called chat_with_context
AnswerGenerated == call.op = "answer_question" /\ Len(issued) = 3

\* the context answer_question handed to chat_with_context
Handed == issued[3].context

\* the contents answer_question collected from its search, joined by the
\* separator, before any cut
JoinedContext ==
    Join(<<"\n", "\n">>,
         ContentsOf(search_documents(TRUE, [raised |-> FALSE, matches |-> Candidates]).results))

Marker == <<".", ".", ".">>

EndsWithMarker(s) == Len(s) >= 3 /\ SubSeq(s, Len(s) - 2, Len(s)) = Marker

\* C21: when the joined context of answer_question is longer than
\* max_context_length, the context handed to generation is its first
\* max_context_length characters followed by the marker "..."; when it is
\* not longer, the joined context is handed on as it is.  The handed context
\* ends with the marker exactly when it was cut.
C21_MarkerIffCut ==
    AnswerGenerated
    => /\ Len(JoinedContext) > max_context_length
            => Handed = SubSeq(JoinedContext, 1, max_context_length) \o Marker
       /\ Len(JoinedContext) <= max_context_length => Handed = JoinedContext
       /\ EndsWithMarker(Handed) <=> Len(JoinedContext) > max_context_length
       /\ Succeeded(ret) => ret.context_length = Len(Handed)

\* answer_question has handed on a context that it cut in the middle of a
\* chunk's content
C21_Witness ==
    /\ AnswerGenerated
    /\ Succeeded(ret)
    /\ Len(JoinedContext) > max_context_length + 1
    /\ JoinedContext[max_context_length] \notin Whitespace
    /\ JoinedContext[max_context_length + 1] \notin Whitespace

\* C22: every context handed to chat_with_context, by answer_question and
\* by ask_question with and without a document filter, holds at most
\* max_context_length characters, not counting a truncation marker.
C22_HandedContextBounded ==
    \A i \in 1..Len(issued) :
        issued[i].fn = "chat_with_context"
        => Len(issued[i].context) <= max_context_length + Len(Marker)

\* s cut as answer_question cuts a context
Cut(s) ==
    IF Len(s) > max_context_length
    THEN SubSeq(s, 1, max_context_length) \o Marker ELSE s

\* C23: the context answer_question hands to generation is the content of
\* the surviving hits joined in an order of non-increasing score over all
\* hits (and then cut), also when the hits are of several documents.
C23_ContextInRankOrder ==
    AnswerGenerated
    => LET found == search_documents(TRUE, [raised |-> FALSE, matches |-> Candidates])
           kept == Survivors(found)
       IN \E p \in Orders(Len(kept)) :
             /\ \A i \in 1..(Len(kept) - 1) : kept[p[i]].score >= kept[p[i + 1]].score
             /\ Handed = Cut(Join(<<"\n", "\n">>,
                                  [i \in 1..Len(kept) |-> Strip(kept[p[i]].metadata.text)]))

\* what the second client's query returned for the document under update
Observed == seen.ret.context_chunks

\* a chunk as update_document_index(d, new_text, m) writes it
OfNewContent(chunk) ==
    \E i \in 1..Len(_split_text(call.text_content)) :
        /\ chunk.chunk_id = ChunkId(call.document_id, i - 1)
        /\ chunk.content = Strip(_split_text(call.text_content)[i].page_content)

QueriedDuringUpdate ==
    /\ seen.pc # "none"
    /\ seen.document_id = call.document_id
    /\ "context_chunks" \in DOMAIN seen.ret

\* C27: a query scoped to the document that update_document_index is
\* working on returns no chunk at all between the delete step and the
\* re-index step, and after the re-index step it never returns chunks of
\* the new content together with chunks that are not of the new content.
C27_NoMixOfOldAndNew ==
    QueriedDuringUpdate
    => /\ seen.pc = "reindex" => Observed = <<>>
       /\ \/ \A i \in 1..Len(Observed) : OfNewContent(Observed[i])
          \/ \A i \in 1..Len(Observed) : ~OfNewContent(Observed[i])

Configured == call.op = "index_document" /\ "chunk_size" \in DOMAIN call

ChunksMade ==
    _split_text_with(call.text_content, call.chunk_size, call.chunk_overlap)

\* the least position >= from at which chunk occurs in text, 0 when none
RECURSIVE Occurrence(_, _, _)
Occurrence(text, chunk, from) ==
    IF from + Len(chunk) - 1 > Len(text) THEN 0
    ELSE IF SubSeq(text, from, from + Len(chunk) - 1) = chunk THEN from
    ELSE Occurrence(text, chunk, from + 1)

\* the chunks occur in the text at positions that never go back (a chunk
\* stripped of its leading whitespace can start where the next one does)
RECURSIVE InTextOrder(_, _, _)
InTextOrder(text, chunks, from) ==
    \/ chunks = <<>>
    \/ /\ Occurrence(text, Head(chunks).page_content, from) > 0
       /\ InTextOrder(text, Tail(chunks),
                      Occurrence(text, Head(chunks).page_content, from))

\* C24: under every configuration with overlap < chunk_size and for every
\* text, each chunk the chunker produces has at most chunk_size characters,
\* the chunks carry the indices 0, 1, ..., n-1 in the order of the text, and
\* index_document reports n chunks and writes them under the ids
\* d_chunk_0 .. d_chunk_(n-1) with the same index and the chunk's text in
\* the metadata.
C24_ChunksBoundedAndDense ==
    (Configured /\ call.chunk_overlap < call.chunk_size)
    => /\ \A i \in 1..Len(ChunksMade) :
             /\ Len(ChunksMade[i].page_content) <= call.chunk_size
             /\ ChunksMade[i].chunk_index = i - 1
       /\ InTextOrder(call.text_content, ChunksMade, 1)
       /\ Succeeded(ret) => ret.chunk_count = Len(ChunksMade)
       /\ (Len(issued) = 2 /\ issued[2].ok)
             => /\ DOMAIN index = {ChunkId(call.document_id, i) : i \in 0..(ret.chunk_count - 1)}
                /\ \A i \in 0..(ret.chunk_count - 1) :
                      LET entry == index[ChunkId(call.document_id, i)]
                      IN /\ entry.metadata.chunk_index = i
                         /\ entry.metadata.chunk_count = ret.chunk_count
                         /\ entry.metadata.text = ChunksMade[i + 1].page_content
                         /\ Len(entry.metadata.text) <= call.chunk_size

C24_Witness ==
    /\ Configured
    /\ 0 < call.chunk_overlap /\ call.chunk_overlap < call.chunk_size
    /\ " " \in {call.text_content[k] : k \in 1..Len(call.text_content)}
    /\ Len(issued) = 2 /\ issued[2].ok
    /\ ret.chunk_count >= 2
    /\ \E id \in DOMAIN index : Len(index[id].metadata.text) = call.chunk_size

\* C25: a system constructed with overlap >= chunk_size (overlap =
\* chunk_size included) is rejected at construction, so that no document
\* is chunked or indexed under such a configuration.
C25_OverlapReachingSizeRejected ==
    /\ (call.op = "RAGSystem" /\ call.chunk_overlap >= call.chunk_size)
          => "raised" \in DOMAIN ret
    /\ Configured => call.chunk_overlap < call.chunk_size

\* C26: a second index_document call with the arguments of the first
\* reports the same chunk_count and leaves the index as the first call left
\* it.
C26_ReindexIdempotent ==
    [][(/\ call.op = "index_document" /\ Succeeded(ret)
        /\ call' = call /\ Succeeded(ret'))
       => (ret'.chunk_count = ret.chunk_count /\ index' = index)]_vars

\* id is one of the chunk ids index_document writes for document d
IsChunkIdOf(id, d) == \E i \in 0..MaxChunks : id = ChunkId(d, i)

LifecycleOps == {"index_document", "update_document_index", "delete_document_index"}

\* C28: a step of index_document, update_document_index or
\* delete_document_index for document d leaves every entry of the other
\* documents in the index, with its vector and metadata, whatever the
\* dimension of the vectors the embedding service returns.
C28_OtherDocumentsUntouched ==
    [][call'.op \in LifecycleOps
       => \A id \in DOMAIN index :
             ~IsChunkIdOf(id, call'.document_id)
             => (id \in DOMAIN index' /\ index'[id] = index[id])]_vars

EmbeddingFailed(log) ==
    \E i \in 1..Len(log) : log[i].fn = "generate_embeddings" /\ ~log[i].ok

UpsertIssued(log) == \E i \in 1..Len(log) : log[i].fn = "upsert_vectors"

\* C29: when the embedding step of index_document fails, the call returns
\* an error payload, issues no upsert and leaves the index as it was; when
\* that index_document is the second step of update_document_index, the
\* update returns the error payload and the index holds what the delete
\* step left.
C29_EmbeddingFailureLeavesIndex ==
    [][(call'.op \in {"index_document", "update_document_index"}
        /\ upd'.pc = "idle" /\ EmbeddingFailed(issued'))
       => /\ "error" \in DOMAIN ret' /\ ~Succeeded(ret')
          /\ ~UpsertIssued(issued')
          /\ index' = index /\ index_dim' = index_dim]_vars

C29_Witness ==
    /\ call.op = "update_document_index" /\ upd.pc = "idle"
    /\ EmbeddingFailed(issued) /\ "error" \in DOMAIN ret
    /\ EntriesOf(index, call.document_id) # {}

\* where the chunks of a payload are: group number and place in the group
Positions(r) ==
    UNION {{<<g, i>> : i \in 1..Len(r.results[g].chunks)} : g \in 1..Len(r.results)}

ChunkAt(r, p) == r.results[p[1]].chunks[p[2]]

\* the candidate the index returned under the chunk id
CandidateOf(id) == Candidates[CHOOSE i \in 1..Len(Candidates) : Candidates[i].id = id]

\* the document a hit is of: its metadata document_id, its own id when the
\* metadata has none
DocumentOf(c) ==
    IF "document_id" \in DOMAIN c.metadata /\ c.metadata.document_id # <<>>
    THEN c.metadata.document_id ELSE c.id

RECURSIVE SumOfChunkCounts(_)
SumOfChunkCounts(groups) ==
    IF groups = <<>> THEN 0
    ELSE Len(Head(groups).chunks) + SumOfChunkCounts(Tail(groups))

\* C30: in every success payload of search_documents the groups partition
\* the surviving hits: every chunk of a group is a candidate the index
\* returned, no candidate is in two places, every candidate that passes the
\* threshold (or, when none does, as many candidates as the fallback keeps)
\* is in a group, the group's document_id is the hit's metadata document_id
\* (the hit's id when the metadata has none), total_results is the sum of
\* the groups' chunk counts and document_results is the number of distinct
\* documents among the grouped hits.
C30_GroupsPartitionSurvivors ==
    SearchReturned
    => LET P == Positions(ret)
       IN /\ \A p \in P : \E i \in 1..Len(Candidates) : Candidates[i].id = ChunkAt(ret, p).chunk_id
          /\ \A p, q \in P : ChunkAt(ret, p).chunk_id = ChunkAt(ret, q).chunk_id => p = q
          /\ \A i \in AtOrAbove : \E p \in P : ChunkAt(ret, p).chunk_id = Candidates[i].id
          /\ AtOrAbove = {} => Cardinality(P) = Min(FallbackCount, Len(Candidates))
          /\ \A p \in P : ret.results[p[1]].document_id = DocumentOf(CandidateOf(ChunkAt(ret, p).chunk_id))
          /\ \A g, h \in 1..Len(ret.results) : ret.results[g].document_id = ret.results[h].document_id => g = h
          /\ \A g \in 1..Len(ret.results) : ret.results[g].chunks # <<>>
          /\ ret.total_results = SumOfChunkCounts(ret.results)
          /\ ret.total_results = Cardinality(P)
          /\ ret.document_results = Cardinality({DocumentOf(CandidateOf(ChunkAt(ret, p).chunk_id)) : p \in P})

\* hits of two documents, one of them with two hits, returned interleaved
C30_Witness ==
    /\ SearchReturned
    /\ ret.document_results = 2 /\ ret.total_results >= 3
    /\ \E i \in 1..(Len(Candidates) - 2) :
          /\ DocumentOf(Candidates[i]) = DocumentOf(Candidates[i + 2])
          /\ DocumentOf(Candidates[i]) # DocumentOf(Candidates[i + 1])

====
